---------------------------- MODULE Spec2Model ----------------------------
(***************************************************************************)
(* A model of poetry's caches (src/src/poetry/utils/cache.py): the         *)
(* FileCache key/value store with expiring entries and the ArtifactCache   *)
(* directory and archive lookup.                                           *)
(* With them, each under a specification of its own: PackageCollection    *)
(* (src/src/poetry/packages/package_collection.py) and the repository pool *)
(* of Factory.create_poetry as tests/test_factory.py exercises it, and the *)
(* plugin loading of the console Application                               *)
(* (src/poetry/console/application.py).                                    *)
(*                                                                         *)
(* Python integers are unbounded while TLC's are 32 bit wide, and the      *)
(* timestamps of the cache (MAX_DATE = 9999999999) do not fit: a timestamp *)
(* is a pair [hi, lo] standing for hi * 10^5 + lo.                         *)
(***************************************************************************)
EXTENDS Integers, Sequences, FiniteSets, TLC

VARIABLES
    clock,      \* time.time(): [sec |-> timestamp, tenths |-> 0..9]
    files,      \* the file at each key's path: [exists, bytes]
    rootExists, \* whether FileCache.path, the cache's root directory, exists
    stored,     \* history: the CacheItem the last put built for each key
    cpath,      \* concurrent calls: the key's path: [exists, ino]
    inodes,     \* concurrent calls: the bytes of each inode
    procs,      \* concurrent calls: each process's call and where it stands
    ser,        \* _serialize / _deserialize on their own: [pc, item, raw, back]
    link,       \* get_cache_directory_for_link on two links
    arch,       \* get_cached_archive_for_link on one cache directory
    shard,      \* FileCache._path under two hash types: [pc, key, a, b, ...]
    coll,       \* PackageCollection: [pc, dependency, items, log]
    pool,       \* create_poetry's repository pool: [pc, sources, ...]
    app         \* Application: [pc, _poetry, _plugins_loaded, ...]

cacheVars == <<clock, files, rootExists, stored>>
concVars == <<cpath, inodes, procs>>
vars == <<clock, files, rootExists, stored, cpath, inodes, procs, ser, link,
          arch, shard, coll, pool, app>>

Idle == [pc |-> "idle"]

\* The parts of the model a specification does not use stay idle.
RestUnused ==
    /\ shard = Idle
    /\ coll = Idle
    /\ pool = Idle
    /\ app = Idle

---------------------------------------------------------------------------
(* Bounds of the model. *)

\* How many times the clock advances by a minute.
MaxTicks == 2

\* How long a key of the path derivation may be.
MaxKeyLen == 2

\* How many packages a PackageCollection is constructed from, and how many
\* it comes to hold.
MaxInitial == 2
MaxPackages == 3

\* How many sources a project configures.
MaxSources == 3

\* How many calls an Application receives, and how many tokens a command
\* line holds after the program's name.
MaxCalls == 3
MaxTokens == 2

\* How many processes call the cache at the same time.
NumProcs == 2

\* How many files a link's cache directory holds at most.
MaxArchives == 3

---------------------------------------------------------------------------
(* Python integers beyond 32 bits. *)

Base == 10^5

Big(h, l) == [hi |-> h, lo |-> l]

BigAdd(a, b) ==
    LET s == a.lo + b.lo
    IN  Big(a.hi + b.hi + (s \div Base), s % Base)

\* n * c for a small factor c, without an intermediate beyond 32 bits.
BigTimes(n, c) ==
    LET l == (n % Base) * c
    IN  Big((n \div Base) * c + (l \div Base), l % Base)

BigGeq(a, b) == a.hi > b.hi \/ (a.hi = b.hi /\ a.lo >= b.lo)

BigLess(a, b) == ~BigGeq(a, b)

BigIsZero(a) == a.hi = 0 /\ a.lo = 0

\* An optional value: Python's None, or a value.
NoneOpt == [some |-> FALSE, at |-> Big(0, 0)]
SomeOpt(b) == [some |-> TRUE, at |-> b]

---------------------------------------------------------------------------
(* Text and bytes.  A str is a sequence of one-character strings, bytes a  *)
(* sequence of byte values.                                                *)

Chars == <<"0", "1", "2", "3", "4", "5", "6", "7", "8", "9",
           "\"", "[", "]", "a", "l", "n", "u">>

Codes == <<48, 49, 50, 51, 52, 53, 54, 55, 56, 57,
           34, 91, 93, 97, 108, 110, 117>>

Ord(c) == Codes[CHOOSE i \in DOMAIN Chars : Chars[i] = c]

Chr(b) == Chars[CHOOSE i \in DOMAIN Codes : Codes[i] = b]

\* encode(string): the first encoding, utf-8, never fails; on the ASCII text
\* _serialize builds it yields one byte per character.
encode(string) == [i \in DOMAIN string |-> Ord(string[i])]

\* decode(string): utf-8 succeeds on ASCII bytes.
decode(string) == [i \in DOMAIN string |-> Chr(string[i])]

DigitChars == {"0", "1", "2", "3", "4", "5", "6", "7", "8", "9"}

DigitValue(c) == (CHOOSE i \in 1..10 : Chars[i] = c) - 1

IsDigits(s) == Len(s) > 0 /\ \A i \in DOMAIN s : s[i] \in DigitChars

\* str(n) of a natural number below 2^31.
RECURSIVE Digits(_)
Digits(n) ==
    IF n < 10 THEN <<Chars[n + 1]>>
    ELSE Digits(n \div 10) \o <<Chars[(n % 10) + 1]>>

\* The natural number a sequence of digits spells.
RECURSIVE Number(_)
Number(s) ==
    IF s = <<>> THEN 0
    ELSE Number(SubSeq(s, 1, Len(s) - 1)) * 10 + DigitValue(s[Len(s)])

ZeroPad(s, width) ==
    IF Len(s) >= width THEN s
    ELSE [i \in 1..(width - Len(s)) |-> "0"] \o s

\* str(e) of a timestamp e >= 0.
BigDigits(e) ==
    IF e.hi = 0 THEN Digits(e.lo)
    ELSE Digits(e.hi) \o ZeroPad(Digits(e.lo), 5)

\* f"{expires:010d}": at least ten digits, zero padded, more when the number
\* has more.
Format010d(e) == ZeroPad(BigDigits(e), 10)

\* int(s) of a sequence of at most ten digits.
BigOfDigits(s) ==
    IF Len(s) <= 5 THEN Big(0, Number(s))
    ELSE Big(Number(SubSeq(s, 1, Len(s) - 5)),
             Number(SubSeq(s, Len(s) - 4, Len(s))))

\* s[n:], Python's slice from index n (0 based) to the end.
SliceFrom(s, n) == IF Len(s) <= n THEN <<>> ELSE SubSeq(s, n + 1, Len(s))

\* s[:n]
SliceTo(s, n) == IF Len(s) <= n THEN s ELSE SubSeq(s, 1, n)

---------------------------------------------------------------------------
(* The values a cache holds, and json.dumps / json.loads on them.  A value *)
(* is [t, n, s]: None, an int n, a str s or the empty list.                *)

JNull == [t |-> "null", n |-> 0, s |-> <<>>]
JInt(n) == [t |-> "int", n |-> n, s |-> <<>>]
JStr(s) == [t |-> "str", n |-> 0, s |-> s]
JList == [t |-> "list", n |-> 0, s |-> <<>>]

\* json.dumps(value): ASCII text.
dumps(v) ==
    CASE v.t = "null" -> <<"n", "u", "l", "l">>
      [] v.t = "int"  -> Digits(v.n)
      [] v.t = "str"  -> <<"\"">> \o v.s \o <<"\"">>
      [] v.t = "list" -> <<"[", "]">>

\* json.loads(text): [ok, val]; ok is FALSE where it raises JSONDecodeError.
\* A number may not start with a 0 that another digit follows.
loads(text) ==
    CASE text = <<"n", "u", "l", "l">> -> [ok |-> TRUE, val |-> JNull]
      [] text = <<"[", "]">> -> [ok |-> TRUE, val |-> JList]
      [] IsDigits(text) /\ (Len(text) = 1 \/ text[1] # "0") ->
            [ok |-> TRUE, val |-> JInt(Number(text))]
      [] /\ Len(text) >= 2
         /\ text[1] = "\""
         /\ text[Len(text)] = "\""
         /\ \A i \in 2..(Len(text) - 1) : text[i] # "\"" ->
            [ok |-> TRUE, val |-> JStr(SubSeq(text, 2, Len(text) - 1))]
      [] OTHER -> [ok |-> FALSE, val |-> JNull]

---------------------------------------------------------------------------
(* CacheItem and its serialised form. *)

\* MAX_DATE = 9999999999
MAX_DATE == Big(99999, 99999)

CacheItem(data, expires) == [data |-> data, expires |-> expires]

\* round(time.time()): to the nearest second (the clock never reads .5).
Round(c) == IF c.tenths >= 5 THEN BigAdd(c.sec, Big(0, 1)) ELSE c.sec

\* _expiration(minutes) at clock reading c.
_expiration(c, minutes) == BigAdd(Round(c), BigTimes(minutes, 60))

\* CacheItem.expired at clock reading c: expires is an integer, so
\* time.time() >= expires exactly when the whole seconds are.
expired(item, c) == item.expires.some /\ BigGeq(c.sec, item.expires.at)

\* payload.expires or MAX_DATE: None and 0 are both falsy.
ExpiresOrMax(expires) ==
    IF expires.some /\ ~BigIsZero(expires.at) THEN expires.at ELSE MAX_DATE

_serialize(payload) ==
    encode(Format010d(ExpiresOrMax(payload.expires)) \o dumps(payload.data))

\* _deserialize(data_raw): [ok, item, exc].  json.loads runs first, on
\* data_str[10:], then int on data_str[:10].
_deserialize(data_raw) ==
    LET data_str == decode(data_raw)
        data == loads(SliceFrom(data_str, 10))
        head == SliceTo(data_str, 10)
    IN  IF ~data.ok
        THEN [ok |-> FALSE, exc |-> "JSONDecodeError",
              item |-> CacheItem(JNull, NoneOpt)]
        ELSE IF ~IsDigits(head)
        THEN [ok |-> FALSE, exc |-> "ValueError",
              item |-> CacheItem(JNull, NoneOpt)]
        ELSE [ok |-> TRUE, exc |-> "",
              item |-> CacheItem(data.val, SomeOpt(BigOfDigits(head)))]

---------------------------------------------------------------------------
(* Keys and paths. *)

HexChars == <<"0", "1", "2", "3", "4", "5", "6", "7", "8", "9",
              "a", "b", "c", "d", "e", "f">>

\* The hex digits of one byte.
HexOfByte(b) == <<HexChars[(b \div 16) + 1], HexChars[(b % 16) + 1]>>

RECURSIVE HexOfBytes(_)
HexOfBytes(data) ==
    IF data = <<>> THEN <<>>
    ELSE HexOfByte(Head(data)) \o HexOfBytes(Tail(data))

\* The length of hashlib's hexdigest for each algorithm.
DigestLen(algo) ==
    CASE algo = "md5" -> 32
      [] algo = "sha1" -> 40
      [] algo = "sha256" -> 64

\* hashlib's hexdigest: a fixed-length string of hex digits, taken to be
\* collision free.  Here it is the hex of the data itself, filled with zeros
\* (no byte of the model's alphabet is 0) to the algorithm's length.
hexdigest(algo, data) ==
    LET h == HexOfBytes(data)
    IN  h \o [i \in 1..(DigestLen(algo) - Len(h)) |-> "0"]

\* The levels the other way round: the most for the shortest digest.
parts_count_reversed(algo) ==
    CASE algo = "md5" -> 8
      [] algo = "sha1" -> 4
      [] algo = "sha256" -> 2

\* _HASHES[hash_type][1]: the number of directory levels.
parts_count(algo) ==
    CASE algo = "md5" -> 2
      [] algo = "sha1" -> 4
      [] algo = "sha256" -> 8

Min(a, b) == IF a < b THEN a ELSE b

\* The directory levels alone, without the file named by the digest.
_path_parts_only(algo, key) ==
    LET h == hexdigest(algo, encode(key))
        slices == [i \in 1..((Len(h) + 1) \div 2) |->
                      SubSeq(h, 2 * i - 1, Min(2 * i, Len(h)))]
    IN  SubSeq(slices, 1, Min(parts_count(algo), Len(slices)))

\* _path(key), relative to FileCache.path: the first parts_count slices of
\* two characters of the digest h, then h.
_path(algo, key) ==
    LET h == hexdigest(algo, encode(key))
        slices == [i \in 1..((Len(h) + 1) \div 2) |->
                      SubSeq(h, 2 * i - 1, Min(2 * i, Len(h)))]
        parts == SubSeq(slices, 1, Min(parts_count(algo), Len(slices)))
    IN  parts \o <<h>>

Keys == {<<"a">>, <<"u">>}

Values == {JNull, JInt(0), JStr(<<"a">>), JList}

\* minutes: None or a number of minutes; the last is some 285 years.
NoMinutes == [some |-> FALSE, n |-> 0]
Minutes(n) == [some |-> TRUE, n |-> n]
MinutesChoices == {NoMinutes, Minutes(1), Minutes(150000000)}

\* The clock's readings: it starts at 1700000000.2, reads .7 and .2 in turn
\* and may jump to 10000000000.2, past MAX_DATE.
Epoch == Big(17000, 0)
FarFuture == Big(100000, 0)

---------------------------------------------------------------------------
(* FileCache, one call at a time.  files[key] is the file at _path(key).   *)
(* Each method is an operator from the state it finds to how it ends (ret) *)
(* and the state it leaves.                                                *)

NoFile == [exists |-> FALSE, bytes |-> <<>>]
File(bytes) == [exists |-> TRUE, bytes |-> bytes]

Return(v) == [kind |-> "return", val |-> v, exc |-> ""]
Raise(e) == [kind |-> "raise", val |-> JNull, exc |-> e]
JBool(b) == [t |-> "bool", n |-> IF b THEN 1 ELSE 0, s |-> <<>>]

Outcome(r, fs, root) == [ret |-> r, files |-> fs, rootExists |-> root]

NotStored == [present |-> FALSE, item |-> CacheItem(JNull, NoneOpt)]
Stored(item) == [present |-> TRUE, item |-> item]

\* The CacheItem put builds from value and minutes at clock reading c.
PutItem(c, value, minutes) ==
    CacheItem(value,
              IF minutes.some THEN SomeOpt(_expiration(c, minutes.n))
              ELSE NoneOpt)

\* put(key, value, minutes): mkdir of the parents, open(path, "wb") and the
\* write of the whole serialised item.
put(fs, root, c, key, value, minutes) ==
    Outcome(Return(JNull),
            [fs EXCEPT ![key] = File(_serialize(PutItem(c, value, minutes)))],
            TRUE)

\* Unlinks the file of every key, not of the one alone.
forget_every_key(fs, root, key) ==
    Outcome(Return(JNull), [k \in DOMAIN fs |-> NoFile], root)

\* forget(key): unlink the path if it exists.
forget(fs, root, key) ==
    Outcome(Return(JNull), [fs EXCEPT ![key] = NoFile], root)

\* _get_payload(key) at clock reading c.
_get_payload(fs, root, c, key) ==
    LET payload == _deserialize(fs[key].bytes)
    IN  IF ~fs[key].exists THEN Outcome(Return(JNull), fs, root)
        ELSE IF ~payload.ok THEN Outcome(Raise(payload.exc), fs, root)
        ELSE IF expired(payload.item, c)
        THEN Outcome(Return(JNull), forget(fs, root, key).files, root)
        ELSE Outcome(Return(payload.item.data), fs, root)

get(fs, root, c, key) == _get_payload(fs, root, c, key)

\* has(key): get(key) is not None.
has(fs, root, c, key) ==
    LET r == get(fs, root, c, key)
    IN  IF r.ret.kind = "raise" THEN r
        ELSE Outcome(Return(JBool(r.ret.val # JNull)), r.files, r.rootExists)

\* flush(): shutil.rmtree(self.path) raises FileNotFoundError without the
\* directory.
flush(fs, root) ==
    IF root THEN Outcome(Return(JNull), [k \in DOMAIN fs |-> NoFile], FALSE)
    ELSE Outcome(Raise("FileNotFoundError"), fs, root)

\* remember(key, callback, minutes), the callback returning value: the
\* outcome, and whether the callback was called.
remember(fs, root, c, key, value, minutes) ==
    LET r == get(fs, root, c, key)
    IN  IF r.ret.kind = "raise" THEN [out |-> r, called |-> FALSE]
        ELSE IF r.ret.val = JNull
        THEN [out |-> Outcome(Return(value),
                              put(r.files, r.rootExists, c, key, value,
                                  minutes).files,
                              TRUE),
              called |-> TRUE]
        ELSE [out |-> r, called |-> FALSE]

Done(out) ==
    /\ files' = out.files
    /\ rootExists' = out.rootExists
    /\ UNCHANGED <<concVars, ser, link, arch, shard, coll, pool, app>>

Put(key, value, minutes) ==
    /\ Done(put(files, rootExists, clock, key, value, minutes))
    /\ stored' = [stored EXCEPT ![key] = Stored(PutItem(clock, value, minutes))]
    /\ UNCHANGED clock

Get(key) ==
    /\ Done(get(files, rootExists, clock, key))
    /\ UNCHANGED <<clock, stored>>

Has(key) ==
    /\ Done(has(files, rootExists, clock, key))
    /\ UNCHANGED <<clock, stored>>

Forget(key) ==
    /\ Done(forget(files, rootExists, key))
    /\ stored' = [stored EXCEPT ![key] = NotStored]
    /\ UNCHANGED clock

Flush ==
    /\ Done(flush(files, rootExists))
    /\ stored' = IF rootExists THEN [k \in Keys |-> NotStored] ELSE stored
    /\ UNCHANGED clock

Remember(key, value, minutes) ==
    LET r == remember(files, rootExists, clock, key, value, minutes)
    IN  /\ Done(r.out)
        /\ stored' = IF r.called
                     THEN [stored EXCEPT
                             ![key] = Stored(PutItem(clock, value, minutes))]
                     ELSE stored
        /\ UNCHANGED clock

\* A minute passes.
Tick ==
    /\ BigLess(clock.sec, BigAdd(Epoch, BigTimes(MaxTicks, 60)))
    /\ clock' = [sec |-> BigAdd(clock.sec, Big(0, 60)),
                 tenths |-> IF clock.tenths = 2 THEN 7 ELSE 2]
    /\ UNCHANGED <<files, rootExists, stored, concVars, ser, link, arch,
                   shard, coll, pool, app>>

\* Centuries pass: the clock reaches MAX_DATE and beyond.
TickFar ==
    /\ BigLess(clock.sec, FarFuture)
    /\ clock' = [sec |-> FarFuture, tenths |-> 2]
    /\ UNCHANGED <<files, rootExists, stored, concVars, ser, link, arch,
                   shard, coll, pool, app>>

\* The parts of the state a specification leaves alone.
CacheUnused ==
    /\ clock = [sec |-> Epoch, tenths |-> 2]
    /\ files = [k \in Keys |-> NoFile]
    /\ rootExists = FALSE
    /\ stored = [k \in Keys |-> NotStored]

ConcUnused ==
    /\ cpath = Idle
    /\ inodes = <<>>
    /\ procs = <<>>

\* A FileCache over a directory that may not exist yet.
Init ==
    /\ clock = [sec |-> Epoch, tenths |-> 2]
    /\ files = [k \in Keys |-> NoFile]
    /\ rootExists \in BOOLEAN
    /\ stored = [k \in Keys |-> NotStored]
    /\ ConcUnused
    /\ ser = Idle
    /\ link = Idle
    /\ arch = Idle
    /\ RestUnused

Next ==
    \/ \E k \in Keys, v \in Values, m \in MinutesChoices : Put(k, v, m)
    \/ \E k \in Keys : Get(k)
    \/ \E k \in Keys : Has(k)
    \/ \E k \in Keys : Forget(k)
    \/ Flush
    \/ \E k \in Keys, v \in Values, m \in MinutesChoices : Remember(k, v, m)
    \/ Tick
    \/ TickFar

Spec == Init /\ [][Next]_vars

---------------------------------------------------------------------------
(* FileCache round trip and expiry (C1, C2, C3), under Spec. *)

\* Whether nothing but reads touched the key since its last put.
Kept(k) == stored[k].present

StoredData(k) == stored[k].item.data
StoredExpires(k) == stored[k].item.expires

\* C1: after put(k, v, minutes), with minutes None or positive, a get(k) at
\* any time strictly before the entry's expiration, with no put, forget or
\* flush in between, returns v.
C1_RoundTrip ==
    \A k \in Keys :
        (Kept(k) /\ ~expired(stored[k].item, clock))
            => get(files, rootExists, clock, k).ret = Return(StoredData(k))

\* C2: for an entry stored with expiration e, a get(k) at a time t >= e
\* returns None and leaves no file behind, and a get(k) at t < e returns the
\* value and leaves the file in place.
C2_ReadEviction ==
    \A k \in Keys :
        (Kept(k) /\ StoredExpires(k).some) =>
            LET r == get(files, rootExists, clock, k)
            IN  IF BigGeq(clock.sec, StoredExpires(k).at)
                THEN r.ret = Return(JNull) /\ ~r.files[k].exists
                ELSE /\ r.ret = Return(StoredData(k))
                     /\ files[k].exists
                     /\ r.files[k] = files[k]

\* C3: after put(k, v) without minutes, v not None, get(k) returns v at every
\* later time, however large the clock value, and no read evicts the entry.
C3_NeverExpires ==
    \A k \in Keys :
        (Kept(k) /\ ~StoredExpires(k).some /\ StoredData(k) # JNull) =>
            LET r == get(files, rootExists, clock, k)
            IN  /\ r.ret = Return(StoredData(k))
                /\ files[k].exists
                /\ r.files[k] = files[k]

---------------------------------------------------------------------------
(* _serialize and _deserialize on their own: a CacheItem is serialised and *)
(* the bytes are read back.                                                *)

\* The payloads and expirations tried: absent, 0, small, present-day, the
\* last ten-digit number, and numbers of eleven digits, as a lifetime of
\* centuries (or a put made after MAX_DATE) gives.
SerValues == Values \cup {JInt(7), JInt(10), JStr(<<>>)}

SerExpires ==
    {NoneOpt} \cup
    {SomeOpt(b) : b \in {Big(0, 0), Big(0, 5), Epoch, Big(17000, 60),
                         Big(17000, 121), MAX_DATE, FarFuture,
                         Big(100000, 60), Big(107000, 0), Big(107000, 61)}}

NoBack == [ok |-> FALSE, exc |-> "", item |-> CacheItem(JNull, NoneOpt)]

InitSer ==
    /\ ser \in [pc : {"start"}, item : [data : SerValues, expires : SerExpires],
               raw : {<<>>}, back : {NoBack}]
    /\ CacheUnused
    /\ ConcUnused
    /\ link = Idle
    /\ arch = Idle
    /\ RestUnused

Serialize ==
    /\ ser.pc = "start"
    /\ ser' = [ser EXCEPT !.pc = "serialized", !.raw = _serialize(ser.item)]
    /\ UNCHANGED <<cacheVars, concVars, link, arch, shard, coll, pool, app>>

Deserialize ==
    /\ ser.pc = "serialized"
    /\ ser' = [ser EXCEPT !.pc = "done", !.back = _deserialize(ser.raw)]
    /\ UNCHANGED <<cacheVars, concVars, link, arch, shard, coll, pool, app>>

NextSer == Serialize \/ Deserialize

SpecSer == InitSer /\ [][NextSer]_vars

\* The expiration a CacheItem is to be serialised with: its own, or the
\* sentinel when it has none.
SerExpiration == IF ser.item.expires.some THEN ser.item.expires.at ELSE MAX_DATE

\* C4: _serialize gives exactly ten zero-padded digits holding the expiration
\* (the sentinel 9999999999 when absent), then the JSON payload, and
\* _deserialize of that gives back the same payload and the same expiration,
\* for every expiration: absent, 0, and 10^10 or more.
C4_FixedWidth ==
    ser.pc = "done" =>
        LET text == decode(ser.raw)
        IN  /\ Len(text) = 10 + Len(dumps(ser.item.data))
            /\ IsDigits(SliceTo(text, 10))
            /\ BigOfDigits(SliceTo(text, 10)) = SerExpiration
            /\ SliceFrom(text, 10) = dumps(ser.item.data)
            /\ ser.back.ok
            /\ ser.back.item = CacheItem(ser.item.data, SomeOpt(SerExpiration))

---------------------------------------------------------------------------
(* FileCache called by several processes at once, all on one key.  The     *)
(* path names an inode or nothing; open, write, read, exists and unlink    *)
(* are separate steps, and an open file keeps its inode when the path is   *)
(* unlinked.  Inode 0 is the file found at the start, inode p the one      *)
(* process p creates.                                                      *)

Procs == 1..NumProcs

NoPath == [exists |-> FALSE, ino |-> 0]
PathTo(i) == [exists |-> TRUE, ino |-> i]

\* The clock does not move while the calls run.
ConcNow == [sec |-> Epoch, tenths |-> 2]

\* What the writers put: values whose serialised forms differ in length.
ConcPuts ==
    {[value |-> JInt(0), minutes |-> NoMinutes],
     [value |-> JStr(<<"a">>), minutes |-> NoMinutes],
     [value |-> JStr(<<"a">>), minutes |-> Minutes(1)]}

\* The entry found at the start, if any: one still valid, one that expired a
\* minute ago.
ConcEntries ==
    {_serialize(CacheItem(JInt(0), SomeOpt(Big(17000, 60)))),
     _serialize(CacheItem(JInt(0), SomeOpt(Big(16999, 99940))))}

Proc(call, pc, data) ==
    [call |-> call, pc |-> pc, data |-> data, fd |-> 0, ret |-> Return(JNull)]

ConcCalls ==
    {Proc("put", "put_open", _serialize(PutItem(ConcNow, w.value, w.minutes))) :
        w \in ConcPuts}
    \cup {Proc("get", "get_exists", <<>>), Proc("forget", "forget_exists", <<>>)}

InitConc ==
    /\ procs \in [Procs -> ConcCalls]
    /\ \/ /\ cpath = NoPath
          /\ inodes = [i \in {0} \cup Procs |-> <<>>]
       \/ \E e \in ConcEntries :
             /\ cpath = PathTo(0)
             /\ inodes = [i \in {0} \cup Procs |-> IF i = 0 THEN e ELSE <<>>]
    /\ CacheUnused
    /\ ser = Idle
    /\ link = Idle
    /\ arch = Idle
    /\ RestUnused

Finish(p, r) == [procs EXCEPT ![p].pc = "done", ![p].ret = r]

\* f.write at offset 0 of a file opened "wb": the bytes replace those at the
\* same offsets; what lies beyond them stays.
WriteAt0(old, data) == data \o SliceFrom(old, Len(data))

\* put, line 143: open(path, "wb") creates the file or truncates it.
PutOpen(p) ==
    /\ procs[p].pc = "put_open"
    /\ LET i == IF cpath.exists THEN cpath.ino ELSE p
       IN  /\ cpath' = PathTo(i)
           /\ inodes' = [inodes EXCEPT ![i] = <<>>]
           /\ procs' = [procs EXCEPT ![p].pc = "put_write", ![p].fd = i]
    /\ UNCHANGED <<cacheVars, ser, link, arch, shard, coll, pool, app>>

\* put, line 144: the write of the serialised item, and the close.
PutWrite(p) ==
    /\ procs[p].pc = "put_write"
    /\ inodes' = [inodes EXCEPT
                    ![procs[p].fd] = WriteAt0(inodes[procs[p].fd],
                                              procs[p].data)]
    /\ procs' = Finish(p, Return(JNull))
    /\ UNCHANGED <<cpath, cacheVars, ser, link, arch, shard, coll, pool, app>>

\* A writer is interrupted (a signal, a kill) after the open and before the
\* write.
Interrupt(p) ==
    /\ procs[p].pc = "put_write"
    /\ procs' = [procs EXCEPT ![p].pc = "killed"]
    /\ UNCHANGED <<cpath, inodes, cacheVars, ser, link, arch, shard, coll, pool, app>>

\* _get_payload, line 181: path.exists().
GetExists(p) ==
    /\ procs[p].pc = "get_exists"
    /\ procs' = IF cpath.exists THEN [procs EXCEPT ![p].pc = "get_open"]
                ELSE Finish(p, Return(JNull))
    /\ UNCHANGED <<cpath, inodes, cacheVars, ser, link, arch, shard, coll, pool, app>>

\* _get_payload, line 184: open(path, "rb").
GetOpen(p) ==
    /\ procs[p].pc = "get_open"
    /\ procs' = IF cpath.exists
                THEN [procs EXCEPT ![p].pc = "get_read", ![p].fd = cpath.ino]
                ELSE Finish(p, Raise("FileNotFoundError"))
    /\ UNCHANGED <<cpath, inodes, cacheVars, ser, link, arch, shard, coll, pool, app>>

\* _get_payload, lines 185-191: f.read(), _deserialize and the expiry test.
GetRead(p) ==
    /\ procs[p].pc = "get_read"
    /\ LET payload == _deserialize(inodes[procs[p].fd])
       IN  procs' =
             IF ~payload.ok THEN Finish(p, Raise(payload.exc))
             ELSE IF expired(payload.item, ConcNow)
             THEN [procs EXCEPT ![p].pc = "forget_exists"]
             ELSE Finish(p, Return(payload.item.data))
    /\ UNCHANGED <<cpath, inodes, cacheVars, ser, link, arch, shard, coll, pool, app>>

\* forget, line 153: path.exists().
ForgetExists(p) ==
    /\ procs[p].pc = "forget_exists"
    /\ procs' = IF cpath.exists THEN [procs EXCEPT ![p].pc = "forget_unlink"]
                ELSE Finish(p, Return(JNull))
    /\ UNCHANGED <<cpath, inodes, cacheVars, ser, link, arch, shard, coll, pool, app>>

\* forget, line 154: path.unlink(), which raises when the path is gone.
ForgetUnlink(p) ==
    /\ procs[p].pc = "forget_unlink"
    /\ IF cpath.exists
       THEN /\ cpath' = NoPath
            /\ procs' = Finish(p, Return(JNull))
       ELSE /\ cpath' = cpath
            /\ procs' = Finish(p, Raise("FileNotFoundError"))
    /\ UNCHANGED <<inodes, cacheVars, ser, link, arch, shard, coll, pool, app>>

NextConc ==
    \E p \in Procs :
        \/ PutOpen(p)
        \/ PutWrite(p)
        \/ Interrupt(p)
        \/ GetExists(p)
        \/ GetOpen(p)
        \/ GetRead(p)
        \/ ForgetExists(p)
        \/ ForgetUnlink(p)

SpecConc == InitConc /\ [][NextConc]_vars

Writers == {p \in Procs : procs[p].call = "put"}

\* The complete serialised entries there are: the one found at the start and
\* the ones the writers write.
CompleteEntries == ConcEntries \cup {procs[p].data : p \in Writers}

\* C5: there is no state in which the file at the key's path exists and holds
\* less than a complete serialised entry, neither while a put runs nor after
\* its writer was interrupted.
C5_NeverPartial ==
    cpath.exists => inodes[cpath.ino] \in CompleteEntries

\* C6: when two puts on the key have interleaved in any order and both have
\* returned, the path holds exactly the complete serialised entry of one of
\* them, never a mixture of the bytes of both.
C6_LastWriterWins ==
    (/\ Cardinality(Writers) >= 2
     /\ \A p \in Writers : procs[p].pc = "done"
     /\ cpath.exists)
        => inodes[cpath.ino] \in {procs[p].data : p \in Writers}

---------------------------------------------------------------------------
(* ArtifactCache.get_cache_directory_for_link.  A Link is what the method  *)
(* reads of it: the URL without its fragment and, parsed from the          *)
(* fragment, the hash (name and value), the subdirectory and the rest      *)
(* (here an egg name).  A str is an atom; None is the atom below.          *)

None == "<None>"

LinkUrls == {"https://a/demo-1.0.tar.gz", "https://b/demo-1.0.tar.gz"}

\* (hash_name, hash): both None, or both set.
LinkHashes ==
    {<<None, None>>, <<"md5", "0a">>, <<"sha256", "0a">>, <<"sha256", "1b">>}

LinkSubdirectories == {None, "", "sub"}

LinkEggs == {None, "demo"}

Links ==
    {[url_without_fragment |-> u, hash_name |-> h[1], hash |-> h[2],
      subdirectory_fragment |-> d, egg |-> e] :
        u \in LinkUrls, h \in LinkHashes, d \in LinkSubdirectories,
        e \in LinkEggs}

\* d[k] = v on a dict.
DictSet(d, k, v) == [x \in DOMAIN d \cup {k} |-> IF x = k THEN v ELSE d[x]]

\* Drops the fragment's egg into the key as well.
key_parts_with_egg(l) ==
    LET d0 == [x \in {"url"} |-> l.url_without_fragment]
        d1 == IF l.hash_name # None /\ l.hash # None
              THEN DictSet(d0, l.hash_name, l.hash) ELSE d0
        d2 == IF l.subdirectory_fragment # None /\ l.subdirectory_fragment # ""
              THEN DictSet(d1, "subdirectory", l.subdirectory_fragment)
              ELSE d1
    IN  IF l.egg # None THEN DictSet(d2, "egg", l.egg) ELSE d2

\* Leaves the hash out of the key.
key_parts_without_hash(l) ==
    LET d0 == [x \in {"url"} |-> l.url_without_fragment]
    IN  IF l.subdirectory_fragment # None /\ l.subdirectory_fragment # ""
        THEN DictSet(d0, "subdirectory", l.subdirectory_fragment)
        ELSE d0

\* Lines 216-222: the dict key_parts.
key_parts(l) ==
    LET d0 == [x \in {"url"} |-> l.url_without_fragment]
        d1 == IF l.hash_name # None /\ l.hash # None
              THEN DictSet(d0, l.hash_name, l.hash) ELSE d0
    IN  IF l.subdirectory_fragment # None /\ l.subdirectory_fragment # ""
        THEN DictSet(d1, "subdirectory", l.subdirectory_fragment)
        ELSE d1

\* The keys a dict may have, in the order sort_keys=True puts them.
SortedKeys == <<"egg", "md5", "sha256", "subdirectory", "url">>

InDict(d) == LET Test(k) == k \in DOMAIN d IN SelectSeq(SortedKeys, Test)

\* json.dumps(key_parts, sort_keys=True, separators=(",", ":")): the keys in
\* order, each with its value.
dumps_sorted(d) == [i \in DOMAIN InDict(d) |-> <<InDict(d)[i], d[InDict(d)[i]]>>]

\* Every str that occurs in a key.
Atoms == <<"egg", "md5", "sha256", "subdirectory", "url",
           "https://a/demo-1.0.tar.gz", "https://b/demo-1.0.tar.gz",
           "0a", "1b", "sub", "demo">>

AtomCode(x) == CHOOSE i \in DOMAIN Atoms : Atoms[i] = x

\* A number that tells any two canonical texts apart.
RECURSIVE TextCode(_)
TextCode(text) ==
    IF text = <<>> THEN 0
    ELSE LET last == text[Len(text)]
             r == Len(Atoms) + 1
         IN  (TextCode(SubSeq(text, 1, Len(text) - 1)) * r + AtomCode(last[1]))
                 * r + AtomCode(last[2])

\* The hex digits of n, eight of them.
Hex8(n) == [i \in 1..8 |-> HexChars[((n \div (16 ^ (8 - i))) % 16) + 1]]

\* hashlib.sha256(text).hexdigest(): 64 hex digits, taken to be collision
\* free; here the text's number, eight times over.
sha256_hexdigest(text) ==
    LET h == Hex8(TextCode(text))
    IN  h \o h \o h \o h \o h \o h \o h \o h

\* Stops after the third segment: the rest of the key is lost.
get_cache_directory_for_link_short(l) ==
    LET key == sha256_hexdigest(dumps_sorted(key_parts(l)))
    IN  <<SliceTo(key, 2), SubSeq(key, 3, 4), SubSeq(key, 5, 6)>>

\* Lines 224-232: the directory, relative to cache_dir.
get_cache_directory_for_link(l) ==
    LET key == sha256_hexdigest(dumps_sorted(key_parts(l)))
    IN  <<SliceTo(key, 2), SubSeq(key, 3, 4), SubSeq(key, 5, 6),
          SliceFrom(key, 6)>>

InitLink ==
    /\ link \in [pc : {"start"}, a : Links, b : Links,
                dir_a : {<<>>}, dir_b : {<<>>}]
    /\ CacheUnused
    /\ ConcUnused
    /\ ser = Idle
    /\ arch = Idle
    /\ RestUnused

DirectoriesForLinks ==
    /\ link.pc = "start"
    /\ link' = [link EXCEPT !.pc = "done",
                            !.dir_a = get_cache_directory_for_link(link.a),
                            !.dir_b = get_cache_directory_for_link(link.b)]
    /\ UNCHANGED <<cacheVars, concVars, ser, arch, shard, coll, pool, app>>

NextLink == DirectoriesForLinks

SpecLink == InitLink /\ [][NextLink]_vars

SameHash(a, b) == a.hash_name = b.hash_name /\ a.hash = b.hash

\* C7: two links with the same URL without fragment, the same hash (or none)
\* and the same subdirectory fragment get the same directory, whatever else
\* their fragments hold: so do two links that differ only in the fragment and
\* have no subdirectory.
C7_FragmentIgnored ==
    (/\ link.pc = "done"
     /\ link.a.url_without_fragment = link.b.url_without_fragment
     /\ SameHash(link.a, link.b)
     /\ link.a.subdirectory_fragment = link.b.subdirectory_fragment)
        => link.dir_a = link.dir_b

C7_Witness ==
    /\ link.pc = "done"
    /\ link.a.url_without_fragment = link.b.url_without_fragment
    /\ SameHash(link.a, link.b)
    /\ link.a.hash # None
    /\ link.a.subdirectory_fragment = None
    /\ link.b.subdirectory_fragment = None
    /\ link.a.egg # link.b.egg
    /\ link.dir_a = link.dir_b

\* C8: two links with the same URL and different hashes (another algorithm,
\* another value, or a hash on one side only) get different directories, the
\* digest being collision free.
C8_HashSeparates ==
    (/\ link.pc = "done"
     /\ link.a.url_without_fragment = link.b.url_without_fragment
     /\ ~SameHash(link.a, link.b))
        => link.dir_a # link.dir_b

C8_Witness ==
    /\ link.pc = "done"
    /\ link.a.url_without_fragment = link.b.url_without_fragment
    /\ link.a.hash_name = None
    /\ link.b.hash_name = "sha256"
    /\ link.a.subdirectory_fragment = link.b.subdirectory_fragment
    /\ link.a.egg = link.b.egg
    /\ link.dir_a # link.dir_b

---------------------------------------------------------------------------
(* ArtifactCache.get_cached_archive_for_link on the cache directory of one *)
(* link.  A file is its name; what the code asks of a name (which glob     *)
(* patterns it matches, Path.suffix, what Wheel makes of it) is tabulated. *)

T1 == "cp39-cp39-linux_x86_64"
T2 == "cp39-none-any"
T3 == "py3-none-any"

\* The file names there are, in the order Path compares them (by character).
PathOrder ==
    <<".whl",
      "demo-1.0-cp39-cp39-linux_x86_64.whl",
      "demo-1.0-cp39.py3-none-any.whl",
      "demo-1.0-py3-none-any.whl",
      "demo-1.0.egg",
      "demo-1.0.tar.bz2",
      "demo-1.0.tar.gz",
      "demo-1.0.zip",
      "demo.whl">>

FileNames == {PathOrder[i] : i \in DOMAIN PathOrder}

PathIndex(name) == CHOOSE i \in DOMAIN PathOrder : PathOrder[i] = name

PathLess(a, b) == PathIndex(a) < PathIndex(b)

\* The archive types of line 282 whose pattern "*.<type>" a name matches.
Globs(name) ==
    CASE name \in {".whl", "demo.whl", "demo-1.0-py3-none-any.whl",
                   "demo-1.0-cp39.py3-none-any.whl",
                   "demo-1.0-cp39-cp39-linux_x86_64.whl"} -> {"whl"}
      [] name = "demo-1.0.tar.gz" -> {"tar.gz"}
      [] name = "demo-1.0.tar.bz2" -> {"tar.bz2", "bz2"}
      [] name = "demo-1.0.zip" -> {"zip"}
      [] OTHER -> {}

\* Path(name).suffix: what follows the last dot, a leading dot not counting.
suffix(name) ==
    CASE name = ".whl" -> ""
      [] name = "demo-1.0.tar.gz" -> ".gz"
      [] name = "demo-1.0.tar.bz2" -> ".bz2"
      [] name = "demo-1.0.zip" -> ".zip"
      [] name = "demo-1.0.egg" -> ".egg"
      [] OTHER -> ".whl"

\* Wheel(name): whether the name is a wheel's (else InvalidWheelName), and
\* the tags it spells.
WheelNameValid(name) ==
    name \in {"demo-1.0-py3-none-any.whl", "demo-1.0-cp39.py3-none-any.whl",
              "demo-1.0-cp39-cp39-linux_x86_64.whl"}

WheelTags(name) ==
    CASE name = "demo-1.0-py3-none-any.whl" -> {T3}
      [] name = "demo-1.0-cp39.py3-none-any.whl" -> {T2, T3}
      [] name = "demo-1.0-cp39-cp39-linux_x86_64.whl" -> {T1}
      [] OTHER -> {}

\* Wheel.is_supported_by_environment(env)
is_supported_by_environment(name, tags) ==
    \E i \in DOMAIN tags : tags[i] \in WheelTags(name)

\* Wheel.get_minimum_supported_index(tags): the least index, from 0, of a tag
\* of the wheel in the list.
get_minimum_supported_index(name, tags) ==
    LET at == {i \in DOMAIN tags : tags[i] \in WheelTags(name)}
    IN  (CHOOSE i \in at : \A j \in at : i <= j) - 1

\* env.supported_tags, the most specific tag first; NoEnv is env=None.
NoEnv == <<None>>
Envs == {<<T1, T2, T3>>, <<T2, T3>>, <<T3>>, <<"py2-none-any">>}

\* The directory's listing, in one of the orders the file system may give.
Listing(dir, order) ==
    LET Present(n) == n \in dir
        up == SelectSeq(PathOrder, Present)
    IN  IF order = "up" THEN up
        ELSE [i \in DOMAIN up |-> up[Len(up) + 1 - i]]

archive_types == <<"whl", "tar.gz", "tar.bz2", "bz2", "zip">>

\* _get_cached_archives_for_link: the matches of each pattern in turn.
RECURSIVE GlobAll(_, _)
GlobAll(listing, types) ==
    IF types = <<>> THEN <<>>
    ELSE LET Match(n) == Head(types) \in Globs(n)
         IN  SelectSeq(listing, Match) \o GlobAll(listing, Tail(types))

_get_cached_archives_for_link(dir, order) ==
    GlobAll(Listing(dir, order), archive_types)

\* A candidate (score, path), the score an index or float("inf").
Candidate(inf, idx, path) == [inf |-> inf, idx |-> idx, path |-> path]

\* Tuple comparison: the scores first, the paths on a tie.
CandLess(a, b) ==
    \/ ~a.inf /\ b.inf
    \/ ~a.inf /\ ~b.inf /\ a.idx < b.idx
    \/ a.inf = b.inf /\ (a.inf \/ a.idx = b.idx) /\ PathLess(a.path, b.path)

\* Lines 256-272 for one archive: the candidates it adds.
CandidatesOf(archive, tags) ==
    IF suffix(archive) # ".whl" THEN <<Candidate(TRUE, 0, archive)>>
    ELSE IF ~WheelNameValid(archive) THEN <<>>
    ELSE IF ~is_supported_by_environment(archive, tags) THEN <<>>
    ELSE <<Candidate(FALSE, get_minimum_supported_index(archive, tags),
                     archive)>>

RECURSIVE Candidates(_, _)
Candidates(archives, tags) ==
    IF archives = <<>> THEN <<>>
    ELSE CandidatesOf(Head(archives), tags) \o Candidates(Tail(archives), tags)

\* min(candidates)
MinCandidate(cands) ==
    cands[CHOOSE i \in DOMAIN cands :
            \A j \in DOMAIN cands : ~CandLess(cands[j], cands[i])]

\* max(candidates)
MaxCandidate(cands) ==
    cands[CHOOSE i \in DOMAIN cands :
            \A j \in DOMAIN cands : ~CandLess(cands[i], cands[j])]

\* Strict mode, lines 249-254: the first archive named as the link's file.
StrictMatch(archives, filename) ==
    LET Same(a) == a = filename
        hits == SelectSeq(archives, Same)
    IN  IF hits = <<>> THEN None ELSE Head(hits)

\* Ignores strict: always the prioritised archive.
get_cached_archive_never_strict(archives, filename, strict, tags) ==
    IF archives = <<>> THEN None
    ELSE IF Candidates(archives, tags) = <<>> THEN None
    ELSE MinCandidate(Candidates(archives, tags)).path

\* min(candidates, key=score): the first candidate of least score, in the
\* order the archives were found.
FirstLeast(cands) ==
    cands[CHOOSE i \in DOMAIN cands :
            /\ \A j \in DOMAIN cands :
                  ~(\/ ~cands[j].inf /\ cands[i].inf
                    \/ ~cands[j].inf /\ ~cands[i].inf
                          /\ cands[j].idx < cands[i].idx)
            /\ \A j \in 1..(i - 1) :
                  \/ cands[j].inf /\ ~cands[i].inf
                  \/ ~cands[j].inf /\ ~cands[i].inf
                        /\ cands[j].idx > cands[i].idx]

\* Compares the scores alone, so that the listing's order breaks the ties.
get_cached_archive_by_score_only(archives, filename, strict, tags) ==
    IF archives = <<>> THEN None
    ELSE IF strict THEN StrictMatch(archives, filename)
    ELSE IF Candidates(archives, tags) = <<>> THEN None
    ELSE FirstLeast(Candidates(archives, tags)).path

\* Takes the greatest candidate, not the least.
get_cached_archive_max(archives, filename, strict, tags) ==
    IF archives = <<>> THEN None
    ELSE IF strict THEN StrictMatch(archives, filename)
    ELSE IF Candidates(archives, tags) = <<>> THEN None
    ELSE MaxCandidate(Candidates(archives, tags)).path

\* get_cached_archive_for_link, lines 243-277, on the archives found.
get_cached_archive(archives, filename, strict, tags) ==
    IF archives = <<>> THEN None
    ELSE IF strict THEN StrictMatch(archives, filename)
    ELSE IF Candidates(archives, tags) = <<>> THEN None
    ELSE MinCandidate(Candidates(archives, tags)).path

get_cached_archive_for_link(dir, order, filename, strict, tags) ==
    get_cached_archive(_get_cached_archives_for_link(dir, order), filename,
                       strict, tags)

\* link.filename: an sdist, a wheel, a name no pattern matches, a bad wheel.
LinkFilenames ==
    {"demo-1.0.tar.gz", "demo-1.0-py3-none-any.whl", "demo-1.0.egg",
     "demo.whl"}

\* The call's arguments: "assert strict or env is not None".
InitArch ==
    /\ arch \in {a \in [pc : {"start"},
                       dir : {d \in SUBSET FileNames :
                                Cardinality(d) <= MaxArchives},
                       order : {"up", "down"},
                       filename : LinkFilenames,
                       strict : BOOLEAN,
                       tags : Envs \cup {NoEnv},
                       result : {None}] :
                    a.strict \/ a.tags # NoEnv}
    /\ CacheUnused
    /\ ConcUnused
    /\ ser = Idle
    /\ link = Idle
    /\ RestUnused

CachedArchiveForLink ==
    /\ arch.pc = "start"
    /\ arch' = [arch EXCEPT
                  !.pc = "done",
                  !.result = get_cached_archive_for_link(
                                 arch.dir, arch.order, arch.filename,
                                 arch.strict, arch.tags)]
    /\ UNCHANGED <<cacheVars, concVars, ser, link, shard, coll, pool, app>>

NextArch == CachedArchiveForLink

SpecArch == InitArch /\ [][NextArch]_vars

\* The files of the directory that some pattern of archive_types matches.
Recognised(dir) == {n \in dir : Globs(n) # {}}

\* C9: in strict mode the result is the cached archive named link.filename
\* when a recognised archive of the directory has that name, and None
\* otherwise, whatever else is cached and whatever the environment.
C9_StrictLookup ==
    (arch.pc = "done" /\ arch.strict) =>
        arch.result = IF arch.filename \in Recognised(arch.dir)
                      THEN arch.filename ELSE None

C9_Witness ==
    /\ arch.pc = "done"
    /\ arch.strict
    /\ arch.filename = "demo-1.0.tar.gz"
    /\ arch.dir = {"demo-1.0-py3-none-any.whl", "demo-1.0.zip"}
    /\ arch.tags = <<T1, T2, T3>>
    /\ arch.result = None

\* The wheels of the directory the environment supports, and the archives
\* that are no wheels.
SupportedWheels(dir, tags) ==
    {n \in Recognised(dir) :
        /\ suffix(n) = ".whl"
        /\ WheelNameValid(n)
        /\ \E t \in WheelTags(n) : \E i \in DOMAIN tags : tags[i] = t}

NonWheels(dir) == {n \in Recognised(dir) : suffix(n) # ".whl"}

\* The least index, from 0, at which the list holds a tag of the wheel.
WheelScore(n, tags) ==
    CHOOSE i \in 0..(Len(tags) - 1) :
        /\ tags[i + 1] \in WheelTags(n)
        /\ \A j \in 0..(i - 1) : tags[j + 1] \notin WheelTags(n)

\* C10: in non-strict mode the result is the candidate of lowest score, a
\* supported wheel scoring the least index of its tags in
\* env.supported_tags and any other archive infinity: a supported wheel, if
\* one is cached, is returned rather than an sdist, and of two supported
\* wheels the one of lower index.
C10_LowestScore ==
    (arch.pc = "done" /\ ~arch.strict) =>
        LET wheels == SupportedWheels(arch.dir, arch.tags)
            others == NonWheels(arch.dir)
        IN  /\ (wheels # {}) =>
                  /\ arch.result \in wheels
                  /\ \A w \in wheels :
                        WheelScore(arch.result, arch.tags)
                            <= WheelScore(w, arch.tags)
            /\ (wheels = {} /\ others # {}) => arch.result \in others

C10_Witness ==
    /\ arch.pc = "done"
    /\ ~arch.strict
    /\ arch.tags = <<T1, T2, T3>>
    /\ arch.dir = {"demo-1.0-py3-none-any.whl",
                   "demo-1.0-cp39-cp39-linux_x86_64.whl", "demo-1.0.tar.gz"}
    /\ arch.result = "demo-1.0-cp39-cp39-linux_x86_64.whl"

\* The files of the directory named as wheels are ("*.whl"), and the other
\* archives of the directory.
WhlFiles(dir) == {n \in Recognised(dir) : "whl" \in Globs(n)}

OtherArchives(dir) == Recognised(dir) \ WhlFiles(dir)

\* The .whl files of the directory that are of no use to the environment: the
\* name is no wheel's, or none of its tags is supported.
UnusableWheels(dir, tags) ==
    {n \in WhlFiles(dir) :
        \/ ~WheelNameValid(n)
        \/ \A i \in DOMAIN tags : tags[i] \notin WheelTags(n)}

\* C11: in non-strict mode the result is never a wheel whose tags the
\* environment does not support nor a .whl file of invalid wheel name, and it
\* is None exactly when the directory holds no non-wheel archive and no
\* supported wheel of valid name.
C11_NeverUnusable ==
    (arch.pc = "done" /\ ~arch.strict) =>
        /\ arch.result \notin UnusableWheels(arch.dir, arch.tags)
        /\ (arch.result = None) <=>
              (/\ OtherArchives(arch.dir) = {}
               /\ WhlFiles(arch.dir) \subseteq
                      UnusableWheels(arch.dir, arch.tags))

---------------------------------------------------------------------------
(* FileCache._path under two hash types: two caches are constructed and    *)
(* each derives the path of the same key.                                  *)

\* hash_type as a caller may give it; _HASHES knows the first three.
HashTypes == {"md5", "sha1", "sha256", "sha512"}

_HASHES == {"md5", "sha1", "sha256"}

RECURSIVE KeysUpTo(_)
KeysUpTo(n) ==
    IF n = 0 THEN {<<>>}
    ELSE KeysUpTo(n - 1) \cup
         {Append(k, c) : k \in KeysUpTo(n - 1), c \in {"a", "u"}}

ShardKeys == KeysUpTo(MaxKeyLen)

InitShard ==
    /\ shard \in [pc : {"start"}, key : ShardKeys, a : HashTypes,
                  b : HashTypes, path_a : {<<>>}, path_b : {<<>>}]
    /\ CacheUnused
    /\ ConcUnused
    /\ ser = Idle
    /\ link = Idle
    /\ arch = Idle
    /\ coll = Idle
    /\ pool = Idle
    /\ app = Idle

\* FileCache(path, hash_type): __post_init__ raises ValueError for a
\* hash_type that _HASHES does not know.
PostInit ==
    /\ shard.pc = "start"
    /\ shard' = [shard EXCEPT
                   !.pc = IF shard.a \in _HASHES /\ shard.b \in _HASHES
                          THEN "ready" ELSE "ValueError"]
    /\ UNCHANGED <<cacheVars, concVars, ser, link, arch, coll, pool, app>>

PathOfKey ==
    /\ shard.pc = "ready"
    /\ shard' = [shard EXCEPT !.pc = "done",
                              !.path_a = _path(shard.a, shard.key),
                              !.path_b = _path(shard.b, shard.key)]
    /\ UNCHANGED <<cacheVars, concVars, ser, link, arch, coll, pool, app>>

NextShard == PostInit \/ PathOfKey

SpecShard == InitShard /\ [][NextShard]_vars

\* The directory levels between the cache's root and the entry's file.
Depth(path) == Len(path) - 1

\* C12: the shard depth goes by the algorithm, the family of shorter digest
\* getting the deeper sharding: depth(md5) >= depth(sha1) >= depth(sha256).
C12_ShorterIsDeeper ==
    (shard.pc = "done" /\ DigestLen(shard.a) < DigestLen(shard.b))
        => Depth(shard.path_a) >= Depth(shard.path_b)

\* C12 as the code has it: the family of shorter digest gets the shallower
\* sharding, 2 levels for md5, 4 for sha1 and 8 for sha256.
C12_ShorterIsShallower ==
    (shard.pc = "done" /\ DigestLen(shard.a) < DigestLen(shard.b))
        => /\ Depth(shard.path_a) <= Depth(shard.path_b)
           /\ shard.a = "md5" => Depth(shard.path_a) = 2
           /\ shard.a = "sha1" => Depth(shard.path_a) = 4
           /\ shard.b = "sha256" => Depth(shard.path_b) = 8

C12_Witness ==
    /\ shard.pc = "done"
    /\ shard.a = "md5"
    /\ shard.b = "sha256"
    /\ shard.key = <<"a">>
    /\ Depth(shard.path_a) = 2
    /\ Depth(shard.path_b) = 8
    /\ Len(shard.path_a[3]) = 32
    /\ Len(shard.path_b[9]) = 64

---------------------------------------------------------------------------
(* PackageCollection (poetry/packages/package_collection.py): a list of    *)
(* the packages found for one dependency.  coll.items is the list itself,  *)
(* coll.log the arguments of the append calls so far, in order.            *)

\* poetry.core's Dependency and Package, as far as the collection goes.
Dependencies == [kind : {"Dependency"}, name : {"demo", "other"}]

Packages == [kind : {"Package"}, name : {"demo", "other"},
             version : {"1.0", "2.0"}]

\* DependencyPackage(dependency, package): the pair of the two.
DependencyPackage(dependency, package) ==
    [kind |-> "DependencyPackage", dependency |-> dependency,
     package |-> package]

DependencyPackages ==
    {DependencyPackage(d, p) : d \in Dependencies, p \in Packages}

\* What a caller may hand to append: Package | DependencyPackage.
Appendable == Packages \cup DependencyPackages

\* isinstance(package, DependencyPackage)
IsDependencyPackage(package) == package.kind = "DependencyPackage"

\* Wraps what it is given as it is, a DependencyPackage too.
append_without_unwrap(dependency, items, package) ==
    Append(items, DependencyPackage(dependency, package))

\* PackageCollection.append on the list items of a collection of dependency.
append(dependency, items, package) ==
    LET unwrapped == IF IsDependencyPackage(package) THEN package.package
                     ELSE package
    IN  Append(items, DependencyPackage(dependency, unwrapped))

\* __init__'s loop: each package of the list is appended in turn.
RECURSIVE AppendAll(_, _, _)
AppendAll(dependency, items, packages) ==
    IF packages = <<>> THEN items
    ELSE AppendAll(dependency, append(dependency, items, Head(packages)),
                   Tail(packages))

RECURSIVE ListsUpTo(_)
ListsUpTo(n) ==
    IF n = 0 THEN {<<>>}
    ELSE ListsUpTo(n - 1) \cup
         {Append(l, p) : l \in ListsUpTo(n - 1), p \in Appendable}

InitColl ==
    /\ coll = [pc |-> "start"]
    /\ CacheUnused
    /\ ConcUnused
    /\ ser = Idle
    /\ link = Idle
    /\ arch = Idle
    /\ shard = Idle
    /\ pool = Idle
    /\ app = Idle

\* PackageCollection(dependency) and PackageCollection(dependency, packages)
NewCollection ==
    /\ coll.pc = "start"
    /\ \E dependency \in Dependencies :
       \E is_none \in BOOLEAN :
       \E packages \in ListsUpTo(IF is_none THEN 0 ELSE MaxInitial) :
           \* "if packages is None: packages = []"
           LET given == packages
           IN  coll' = [pc |-> "ready", dependency |-> dependency,
                        items |-> AppendAll(dependency, <<>>, given),
                        log |-> given]
    /\ UNCHANGED <<cacheVars, concVars, ser, link, arch, shard, pool, app>>

AppendPackage ==
    /\ coll.pc = "ready"
    /\ Len(coll.items) < MaxPackages
    /\ \E package \in Appendable :
           coll' = [coll EXCEPT
                      !.items = append(coll.dependency, coll.items, package),
                      !.log = Append(coll.log, package)]
    /\ UNCHANGED <<cacheVars, concVars, ser, link, arch, shard, pool, app>>

NextColl == NewCollection \/ AppendPackage

SpecColl == InitColl /\ [][NextColl]_vars


\* The Package an argument of append stands for.
Underlying(package) ==
    IF IsDependencyPackage(package) THEN package.package ELSE package

\* C13: after construction and after any appends, every element's underlying
\* package has the name of the collection's dependency: a package of another
\* name handed to the collection is not in it.
C13_NameConsistency ==
    (coll.pc = "ready") =>
        \A i \in DOMAIN coll.items :
            coll.items[i].package.name = coll.dependency.name

\* C14: after construction from any list and after any appends, the elements
\* are, in the order they were handed in and none dropped, the underlying
\* packages of the arguments, each one wrapped once as a DependencyPackage of
\* the collection's own dependency.
C14_AutoWrapping ==
    (coll.pc = "ready") =>
        /\ Len(coll.items) = Len(coll.log)
        /\ \A i \in DOMAIN coll.items :
              /\ IsDependencyPackage(coll.items[i])
              /\ coll.items[i].dependency = coll.dependency
              /\ coll.items[i].package \in Packages
              /\ coll.items[i].package = Underlying(coll.log[i])

\* A bare package, one wrapped for another dependency, and the first again.
C14_Witness ==
    /\ coll.pc = "ready"
    /\ Len(coll.items) = 3
    /\ ~IsDependencyPackage(coll.log[1])
    /\ IsDependencyPackage(coll.log[2])
    /\ coll.log[2].dependency # coll.dependency
    /\ coll.log[3] = coll.log[1]
    /\ coll.items[2].dependency = coll.dependency
    /\ coll.items[3] = coll.items[1]

---------------------------------------------------------------------------
(* The repository pool that Factory.create_poetry builds from the          *)
(* project's [[tool.poetry.source]] entries (poetry/factory.py,            *)
(* poetry/repositories/repository_pool.py), as tests/test_factory.py and   *)
(* the specification describe it.                                          *)

\* How a source entry states its priority: by the legacy keys default=true
\* or secondary=true, by priority="...", or not at all.
SourceForms ==
    {"default=true", "secondary=true", "none", "priority=default",
     "priority=primary", "priority=secondary", "priority=explicit"}

\* The names of the configured sources, by position.
SourceNames == <<"foo", "bar", "baz", "qux">>

RECURSIVE ConfigsUpTo(_)
ConfigsUpTo(n) ==
    IF n = 0 THEN {<<>>}
    ELSE ConfigsUpTo(n - 1) \cup
         {Append(c, f) : c \in {d \in ConfigsUpTo(n - 1) : Len(d) = n - 1},
                         f \in SourceForms}

\* The Priority a source entry asks for; PRIMARY when it says nothing.
source_priority(form) ==
    CASE form \in {"default=true", "priority=default"} -> "DEFAULT"
      [] form \in {"secondary=true", "priority=secondary"} -> "SECONDARY"
      [] form = "priority=explicit" -> "EXPLICIT"
      [] OTHER -> "PRIMARY"

\* Priority as an ordered enumeration.
Priorities == <<"DEFAULT", "PRIMARY", "SECONDARY", "EXPLICIT">>

PrioritizedRepository(name, priority) ==
    [name |-> name, priority |-> priority]

\* A pool under construction: its repositories in the order they were
\* added, and the message of the ValueError that ended the construction.
EmptyPool == [raised |-> "", repos |-> <<>>]

\* RepositoryPool.has_default / has_primary_repositories
has_default(repos) ==
    \E i \in DOMAIN repos : repos[i].priority = "DEFAULT"

has_primary_repositories(repos) ==
    \E i \in DOMAIN repos : repos[i].priority = "PRIMARY"

\* RepositoryPool.has_repository / get_priority
has_repository(repos, name) ==
    \E i \in DOMAIN repos : repos[i].name = name

get_priority(repos, name) ==
    repos[CHOOSE i \in DOMAIN repos : repos[i].name = name].priority

\* Adds whatever it is given, a second default too.
add_repository_unchecked(self, name, priority) ==
    IF self.raised # "" THEN self
    ELSE [self EXCEPT
            !.repos = Append(self.repos,
                             PrioritizedRepository(name, priority))]

\* RepositoryPool.add_repository; a pool whose construction has raised stays
\* as it is.
add_repository(self, name, priority) ==
    IF self.raised # "" THEN self
    ELSE IF priority = "DEFAULT" /\ has_default(self.repos)
    THEN [self EXCEPT !.raised = "Only one repository can be the default."]
    ELSE [self EXCEPT
            !.repos = Append(self.repos,
                             PrioritizedRepository(name, priority))]

\* PyPI always behind the configured sources.
pypi_priority_always_secondary(repos) == "SECONDARY"

\* The priority the implicit PyPI gets.
pypi_priority(repos) ==
    IF has_primary_repositories(repos) THEN "SECONDARY" ELSE "DEFAULT"

RECURSIVE AddSources(_, _, _)
AddSources(self, sources, i) ==
    IF i > Len(sources) THEN self
    ELSE AddSources(add_repository(self, SourceNames[i],
                                   source_priority(sources[i])),
                    sources, i + 1)

\* Factory.create_pool: the configured sources in turn, then PyPI unless a
\* default source is configured.
create_pool(sources) ==
    LET added == AddSources(EmptyPool, sources, 1)
    IN  IF added.raised # "" \/ has_default(added.repos) THEN added
        ELSE add_repository(added, "PyPI", pypi_priority(added.repos))

\* The repositories of one priority, in the order they were added.
OfPriority(repos, priority) ==
    LET Is(r) == r.priority = priority
    IN  SelectSeq(repos, Is)

RECURSIVE SortedFrom(_, _)
SortedFrom(repos, p) ==
    IF p > Len(Priorities) THEN <<>>
    ELSE OfPriority(repos, Priorities[p]) \o SortedFrom(repos, p + 1)

\* RepositoryPool.all_repositories: every repository, by priority.
all_repositories(repos) == SortedFrom(repos, 1)

\* Lists the explicit repositories too.
repositories_with_explicit(repos) == all_repositories(repos)

\* RepositoryPool.repositories: the repositories looked up for a dependency
\* that names no source.
repositories(repos) ==
    LET NotExplicit(r) == r.priority # "EXPLICIT"
    IN  SelectSeq(all_repositories(repos), NotExplicit)

InitPool ==
    /\ pool \in [pc : {"start"}, sources : ConfigsUpTo(MaxSources)]
    /\ CacheUnused
    /\ ConcUnused
    /\ ser = Idle
    /\ link = Idle
    /\ arch = Idle
    /\ shard = Idle
    /\ coll = Idle
    /\ app = Idle

\* Factory().create_poetry(project): a Poetry with its pool, or the
\* ValueError of the pool's construction and no Poetry.
CreatePoetry ==
    /\ pool.pc = "start"
    /\ LET built == create_pool(pool.sources)
       IN  pool' = [pc |-> "done", sources |-> pool.sources,
                    raised |-> built.raised,
                    poetry |-> built.raised = "",
                    repos |-> IF built.raised = "" THEN built.repos
                              ELSE <<>>,
                    repositories |-> IF built.raised = ""
                                     THEN repositories(built.repos)
                                     ELSE <<>>]
    /\ UNCHANGED <<cacheVars, concVars, ser, link, arch, shard, coll, app>>

NextPool == CreatePoetry

SpecPool == InitPool /\ [][NextPool]_vars

\* The configured sources of a priority.
Configured(sources, priority) ==
    {i \in DOMAIN sources : source_priority(sources[i]) = priority}

\* C15: two sources configured as default, in the legacy form or by
\* priority, make create_poetry raise "Only one repository can be the
\* default."; no Poetry is returned.
C15_TwoDefaults ==
    (pool.pc = "done" /\ Cardinality(Configured(pool.sources, "DEFAULT")) >= 2)
        => /\ pool.raised = "Only one repository can be the default."
           /\ ~pool.poetry
           /\ pool.repos = <<>>

C15_Witness ==
    /\ pool.pc = "done"
    /\ pool.sources = <<"default=true", "priority=default">>
    /\ pool.raised = "Only one repository can be the default."

\* C16: with no default source configured the pool holds PyPI, as SECONDARY
\* (and has_default() is false) when a configured source is primary and as
\* DEFAULT otherwise; with a default source configured the pool holds the
\* configured sources and no PyPI.
C16_ImplicitPyPI ==
    (pool.pc = "done" /\ pool.poetry) =>
        IF Configured(pool.sources, "DEFAULT") = {}
        THEN /\ has_repository(pool.repos, "PyPI")
             /\ get_priority(pool.repos, "PyPI") =
                   IF Configured(pool.sources, "PRIMARY") # {}
                   THEN "SECONDARY" ELSE "DEFAULT"
             /\ Configured(pool.sources, "PRIMARY") # {}
                   => ~has_default(pool.repos)
        ELSE /\ ~has_repository(pool.repos, "PyPI")
             /\ {pool.repos[i].name : i \in DOMAIN pool.repos} =
                   {SourceNames[i] : i \in DOMAIN pool.sources}

C16_Witness ==
    /\ pool.pc = "done"
    /\ pool.sources = <<"priority=explicit", "none">>
    /\ get_priority(pool.repos, "PyPI") = "SECONDARY"
    /\ ~has_default(pool.repos)

\* Whether a priority comes before another in the enumeration.
PriorityIndex(priority) ==
    CHOOSE p \in DOMAIN Priorities : Priorities[p] = priority

\* C17: a source of EXPLICIT priority is in the pool (has_repository,
\* all_repositories) and never in pool.repositories, which lists the other
\* sources by priority, a default one before a secondary one.
C17_ExplicitHidden ==
    (pool.pc = "done" /\ pool.poetry) =>
        /\ \A i \in Configured(pool.sources, "EXPLICIT") :
              /\ has_repository(pool.repos, SourceNames[i])
              /\ \E j \in DOMAIN all_repositories(pool.repos) :
                    all_repositories(pool.repos)[j].name = SourceNames[i]
              /\ \A j \in DOMAIN pool.repositories :
                    pool.repositories[j].name # SourceNames[i]
        /\ {pool.repositories[j] : j \in DOMAIN pool.repositories} =
              {pool.repos[i] : i \in {k \in DOMAIN pool.repos :
                                        pool.repos[k].priority # "EXPLICIT"}}
        /\ Len(pool.repositories) =
              Cardinality({k \in DOMAIN pool.repos :
                             pool.repos[k].priority # "EXPLICIT"})
        /\ \A j, k \in DOMAIN pool.repositories :
              j < k => PriorityIndex(pool.repositories[j].priority)
                          <= PriorityIndex(pool.repositories[k].priority)

C17_Witness ==
    /\ pool.pc = "done"
    /\ pool.sources = <<"secondary=true", "priority=explicit">>
    /\ has_repository(pool.repos, "bar")
    /\ Len(all_repositories(pool.repos)) = 3
    /\ pool.repositories = <<PrioritizedRepository("PyPI", "DEFAULT"),
                             PrioritizedRepository("foo", "SECONDARY")>>

---------------------------------------------------------------------------
(* FileCache.has, remember and forget (C18, C19, C20), under Spec. *)

\* Whether the key has an entry on disk that has not expired.
Unexpired(k) == files[k].exists /\ ~expired(stored[k].item, clock)

\* C18: has(k) is True if and only if an entry of k exists and has not
\* expired, whatever the stored value, None, 0, "" and [] too: so it is
\* right after any put.
C18_HasIffUnexpired ==
    \A k \in Keys :
        has(files, rootExists, clock, k).ret = Return(JBool(Unexpired(k)))

\* C19: with an unexpired entry of k, remember returns the stored value,
\* calls no callback and rewrites nothing; without one it calls the callback
\* once, stores the result with the given lifetime and returns it, and a
\* remember right after it calls no callback.
C19_Remember ==
    \A k \in Keys, v \in Values, m \in MinutesChoices :
        LET r == remember(files, rootExists, clock, k, v, m)
        IN  IF Unexpired(k)
            THEN /\ r.out.ret = Return(StoredData(k))
                 /\ ~r.called
                 /\ r.out.files = files
            ELSE /\ r.called
                 /\ r.out.ret = Return(v)
                 /\ r.out.files[k] = File(_serialize(PutItem(clock, v, m)))
                 /\ \A w \in Values, n \in MinutesChoices :
                       LET again == remember(r.out.files, r.out.rootExists,
                                             clock, k, w, n)
                       IN  ~again.called /\ again.out.ret = Return(v)

\* C20: forget(k) raises nothing, leaves get(k) returning None and every
\* other key's entry as it was, changes nothing when k has no entry, and
\* a second forget(k) changes nothing more.
C20_ForgetExactly ==
    \A k \in Keys :
        LET r == forget(files, rootExists, k)
        IN  /\ r.ret = Return(JNull)
            /\ get(r.files, r.rootExists, clock, k).ret = Return(JNull)
            /\ \A o \in Keys \ {k} :
                  /\ _path("sha256", o) # _path("sha256", k)
                  /\ r.files[o] = files[o]
            /\ r.rootExists = rootExists
            /\ ~files[k].exists => r.files = files
            /\ forget(r.files, r.rootExists, k) = r

\* Both keys hold an entry, of different values and lifetimes.
C20_Witness ==
    /\ files[<<"a">>].exists
    /\ files[<<"u">>].exists
    /\ files[<<"a">>].bytes # files[<<"u">>].bytes
    /\ StoredExpires(<<"u">>).some
    /\ ~forget(files, rootExists, <<"a">>).files[<<"a">>].exists
    /\ forget(files, rootExists, <<"a">>).files[<<"u">>] = files[<<"u">>]

---------------------------------------------------------------------------
(* FileCache.flush and repeated puts (C21, C22), under Spec. *)

\* C21: in every state of the cache, one never written and one just flushed
\* too, flush returns, after it get(k) is None and has(k) False for every
\* key, and a later put(k, v) succeeds and is readable.
C21_FlushClears ==
    LET f == flush(files, rootExists)
    IN  /\ f.ret = Return(JNull)
        /\ \A k \in Keys :
              /\ get(f.files, f.rootExists, clock, k).ret = Return(JNull)
              /\ has(f.files, f.rootExists, clock, k).ret =
                    Return(JBool(FALSE))
              /\ \A v \in Values :
                    LET p == put(f.files, f.rootExists, clock, k, v,
                                 NoMinutes)
                    IN  /\ p.ret = Return(JNull)
                        /\ get(p.files, p.rootExists, clock, k).ret =
                              Return(v)

\* The entry the cache holds for a key, as _deserialize reads it.
Held(k) == _deserialize(files[k].bytes)

\* C22: after any puts on a key the cache holds the value and the expiration
\* of the last one and nothing of the earlier ones: get returns that value
\* until that expiration and never an earlier value, an entry last put
\* without lifetime does not expire, one last put with a lifetime does.
C22_LastPutWins ==
    \A k \in Keys :
        (Kept(k) /\ files[k].exists) =>
            /\ Held(k).ok
            /\ Held(k).item.data = StoredData(k)
            /\ StoredExpires(k).some =>
                  Held(k).item.expires = StoredExpires(k)
            /\ get(files, rootExists, clock, k).ret =
                  IF expired(stored[k].item, clock) THEN Return(JNull)
                  ELSE Return(StoredData(k))

---------------------------------------------------------------------------
(* Concurrent reads and evictions (C23), under SpecConc. *)

\* The values of the entries a call may find at the start.
ConcValues == {_deserialize(e).item.data : e \in ConcEntries}

\* C23: when the calls are gets and forgets only (two gets of an expired
\* entry, a get and a forget), interleaved in any order, every call that
\* ends ends without raising, and a get returns None or the whole stored
\* value.
C23_ReadsAndEvictions ==
    (Writers = {}) =>
        \A p \in Procs :
            (procs[p].pc = "done") =>
                /\ procs[p].ret.kind = "return"
                /\ procs[p].call = "get" =>
                      procs[p].ret.val \in {JNull} \cup ConcValues

---------------------------------------------------------------------------
(* FileCache key sharding (C24), under SpecShard. *)

\* The levels the claim gives each algorithm.
ClaimedLevels(algo) ==
    CASE algo = "md5" -> 2
      [] algo = "sha1" -> 4
      [] algo = "sha256" -> 8

\* Whether path is s1 / ... / sN / h for the digest h of key under algo.
Sharded(path, algo, key) ==
    LET h == hexdigest(algo, encode(key))
        N == ClaimedLevels(algo)
    IN  /\ Len(h) = DigestLen(algo)
        /\ Len(path) = N + 1
        /\ path[N + 1] = h
        /\ \A i \in 1..N : path[i] = SubSeq(h, 2 * i - 1, 2 * i)

\* C24: the path of a key is root / s1 / ... / sN / h, h the whole hex
\* digest of the key, s1..sN its first N slices of two characters, N being 2
\* for md5, 4 for sha1 and 8 for sha256; the same algorithm and key give the
\* same path, two keys share a path only if their digests are equal, and a
\* cache of any other algorithm is not constructed (ValueError).
C24_KeySharding ==
    /\ shard.pc = "ValueError" <=>
          /\ shard.pc # "start"
          /\ ~(shard.a \in {"md5", "sha1", "sha256"}
               /\ shard.b \in {"md5", "sha1", "sha256"})
    /\ (shard.pc = "done") =>
          /\ Sharded(shard.path_a, shard.a, shard.key)
          /\ Sharded(shard.path_b, shard.b, shard.key)
          /\ shard.a = shard.b => shard.path_a = shard.path_b
          /\ \A other \in ShardKeys :
                _path(shard.a, other) = shard.path_a =>
                    hexdigest(shard.a, encode(other)) =
                        hexdigest(shard.a, encode(shard.key))

C24_Witness ==
    /\ shard.pc = "done"
    /\ shard.a = "md5"
    /\ shard.b = "sha1"
    /\ shard.key = <<"a", "u">>
    /\ Len(shard.path_a) = 3
    /\ shard.path_a[1] = <<"6", "1">>
    /\ shard.path_a[2] = <<"7", "5">>
    /\ Len(shard.path_a[3]) = 32
    /\ Len(shard.path_b) = 5
    /\ shard.path_b[3] = <<"0", "0">>

---------------------------------------------------------------------------
(* The segments of a link's cache directory (C25), under SpecLink. *)

\* The digest k of a link's canonical key object.
LinkDigest(l) == sha256_hexdigest(dumps_sorted(key_parts(l)))

\* Whether dir is k[0:2] / k[2:4] / k[4:6] / k[6:].
SplitOf(dir, k) ==
    /\ Len(k) = 64
    /\ Len(dir) = 4
    /\ Len(dir[1]) = 2
    /\ Len(dir[2]) = 2
    /\ Len(dir[3]) = 2
    /\ Len(dir[4]) = 58
    /\ dir[1] \o dir[2] \o dir[3] \o dir[4] = k

\* C25: the directory of a link is cache_dir / k[0:2] / k[2:4] / k[4:6] /
\* k[6:] for the 64 character hex digest k of its key object, four segments
\* of 2, 2, 2 and 58 characters that make up k; so links of different
\* digests have different directories.
C25_FourSegments ==
    (link.pc = "done") =>
        /\ SplitOf(link.dir_a, LinkDigest(link.a))
        /\ SplitOf(link.dir_b, LinkDigest(link.b))
        /\ LinkDigest(link.a) # LinkDigest(link.b)
              => link.dir_a # link.dir_b

\* Two links whose digests agree in the first six characters and not after.
C25_Witness ==
    /\ link.pc = "done"
    /\ link.dir_a[1] = link.dir_b[1]
    /\ link.dir_a[2] = link.dir_b[2]
    /\ link.dir_a[3] = link.dir_b[3]
    /\ link.dir_a[4] # link.dir_b[4]
    /\ Len(link.dir_a[4]) = 58

---------------------------------------------------------------------------
(* Non-strict lookup and the order of the listing (C26), under SpecArch. *)

\* Whether two usable archives score the same in the environment.
SameScore(a, b, tags) ==
    \/ a \in NonWheels({a}) /\ b \in NonWheels({b})
    \/ /\ a \in SupportedWheels({a}, tags)
       /\ b \in SupportedWheels({b}, tags)
       /\ WheelScore(a, tags) = WheelScore(b, tags)

\* C26: for the same cached files and environment the non-strict lookup
\* returns the same archive in whatever order the directory lists its files,
\* a file found by two patterns (*.tar.bz2) being listed twice; among
\* archives of the same score the least path is returned.
C26_OrderIndependent ==
    (arch.pc = "done" /\ ~arch.strict) =>
        /\ \A order \in {"up", "down"} :
              get_cached_archive_for_link(arch.dir, order, arch.filename,
                                          FALSE, arch.tags) = arch.result
        /\ arch.result # None =>
              \A n \in SupportedWheels(arch.dir, arch.tags)
                          \cup NonWheels(arch.dir) :
                  SameScore(n, arch.result, arch.tags)
                      => ~PathLess(n, arch.result)

\* Two wheels of the same score and a twice listed sdist, found in
\* descending order.
C26_Witness ==
    /\ arch.pc = "done"
    /\ ~arch.strict
    /\ arch.order = "down"
    /\ arch.tags = <<T3>>
    /\ arch.dir = {"demo-1.0-cp39.py3-none-any.whl",
                   "demo-1.0-py3-none-any.whl", "demo-1.0.tar.bz2"}
    /\ Len(_get_cached_archives_for_link(arch.dir, arch.order)) = 4
    /\ arch.result = "demo-1.0-cp39.py3-none-any.whl"

---------------------------------------------------------------------------
(* The console Application and its plugins (SpecApp).                     *)
(* Python values are written as strings: "False", "True", "None", and a   *)
(* token of the command line for the str it is.                            *)

NoPlugins == "--no-plugins"

\* The tokens of a command line: the option, a command that reads the
\* project (show) and one that does not (about).
Tokens == {NoPlugins, "show", "about"}

TokensUpTo(n) == UNION {[1..m -> Tokens] : m \in 0..n}

Inputs == TokensUpTo(MaxTokens)

\* Python's truth value of a value.
Truthy(v) == v \notin {"False", "None"}

\* cleo's ArgvInput.has_parameter_option: whether the raw tokens hold the
\* option.
has_parameter_option(tokens, value) ==
    \E i \in DOMAIN tokens : tokens[i] = value

\* cleo's ArgvInput.parameter_option: the raw value of the option, which is
\* the token after it, None when no token follows, and the default (False)
\* when the tokens do not hold the option.
parameter_option(tokens, value) ==
    IF ~has_parameter_option(tokens, value) THEN "False"
    ELSE LET i == CHOOSE j \in DOMAIN tokens :
                      /\ tokens[j] = value
                      /\ \A h \in 1..(j - 1) : tokens[h] # value
         IN  IF i < Len(tokens) THEN tokens[i + 1] ELSE "None"

\* cleo's first_argument: the first token that is not an option.
first_argument(tokens) ==
    IF \A i \in DOMAIN tokens : tokens[i] = NoPlugins THEN "None"
    ELSE tokens[CHOOSE i \in DOMAIN tokens :
                    /\ tokens[i] # NoPlugins
                    /\ \A h \in 1..(i - 1) : tokens[h] = NoPlugins]

\* The commands whose handling reads Application.poetry.
ReadsPoetry(tokens) == first_argument(tokens) = "show"

NoPoetry == [set |-> FALSE, disable_plugins |-> "None"]

\* Factory().create_poetry(..., disable_plugins=v).
create_poetry(v) == [set |-> TRUE, disable_plugins |-> v]

\* Application.__init__. Besides the object's fields: how often
\* PluginManager.load_plugins and activate were invoked, how many calls the
\* Application has received and, of the latest call, its name, its tokens,
\* whether it loaded and activated plugins and the Poetry it created.
NewApplication ==
    [pc |-> "app",
     _poetry |-> NoPoetry,
     _disable_plugins |-> "False",
     _plugins_loaded |-> FALSE,
     load_plugins |-> 0,
     activate |-> 0,
     calls |-> 0,
     call |-> "__init__",
     tokens |-> <<>>,
     loaded |-> FALSE,
     activated |-> FALSE,
     created |-> NoPoetry]

\* The start of a call on the Application.
Called(self, name, tokens) ==
    [self EXCEPT !.calls = @ + 1, !.call = name, !.tokens = tokens,
                 !.loaded = FALSE, !.activated = FALSE, !.created = NoPoetry]

\* Loads and activates the plugins whether or not they were loaded before.
_load_plugins_again(self, tokens) ==
    LET disable == has_parameter_option(tokens, NoPlugins)
        now == [self EXCEPT !._disable_plugins =
                                IF disable THEN "True" ELSE "False"]
        loaded == IF disable THEN now
                  ELSE [now EXCEPT !.load_plugins = @ + 1, !.loaded = TRUE,
                                   !.activate = @ + 1, !.activated = TRUE]
    IN  [loaded EXCEPT !._plugins_loaded = TRUE]

\* Application._load_plugins(io).
_load_plugins(self, tokens) ==
    IF self._plugins_loaded THEN self
    ELSE LET disable == has_parameter_option(tokens, NoPlugins)
             now == [self EXCEPT !._disable_plugins =
                                     IF disable THEN "True" ELSE "False"]
             loaded == IF disable THEN now
                       ELSE [now EXCEPT !.load_plugins = @ + 1,
                                        !.loaded = TRUE,
                                        !.activate = @ + 1,
                                        !.activated = TRUE]
         IN  [loaded EXCEPT !._plugins_loaded = TRUE]

\* The Application.poetry property.
poetry(self) ==
    IF self._poetry.set THEN self
    ELSE [self EXCEPT !._poetry = create_poetry(self._disable_plugins),
                      !.created = create_poetry(self._disable_plugins)]

\* Application._run(io): the option, the plugins, then the command, which
\* reads the poetry property if it works on the project.
_run(self, tokens) ==
    LET option == [self EXCEPT !._disable_plugins =
                                   parameter_option(tokens, NoPlugins)]
        plugins == _load_plugins(option, tokens)
    IN  IF ReadsPoetry(tokens) THEN poetry(plugins) ELSE plugins

\* Application.reset_poetry().
reset_poetry(self) == [self EXCEPT !._poetry = NoPoetry]

InitApp ==
    /\ CacheUnused
    /\ ConcUnused
    /\ ser = Idle
    /\ link = Idle
    /\ arch = Idle
    /\ shard = Idle
    /\ coll = Idle
    /\ pool = Idle
    /\ app = NewApplication

AppFrame == <<cacheVars, concVars, ser, link, arch, shard, coll, pool>>

Run ==
    /\ app.pc = "app"
    /\ app.calls < MaxCalls
    /\ \E tokens \in Inputs :
          app' = _run(Called(app, "_run", tokens), tokens)
    /\ UNCHANGED AppFrame

LoadPlugins ==
    /\ app.pc = "app"
    /\ app.calls < MaxCalls
    /\ \E tokens \in Inputs :
          app' = _load_plugins(Called(app, "_load_plugins", tokens), tokens)
    /\ UNCHANGED AppFrame

ReadPoetry ==
    /\ app.pc = "app"
    /\ app.calls < MaxCalls
    /\ app' = poetry(Called(app, "poetry", app.tokens))
    /\ UNCHANGED AppFrame

ResetPoetry ==
    /\ app.pc = "app"
    /\ app.calls < MaxCalls
    /\ app' = reset_poetry(Called(app, "reset_poetry", app.tokens))
    /\ UNCHANGED AppFrame

NextApp == Run \/ LoadPlugins \/ ReadPoetry \/ ResetPoetry

SpecApp == InitApp /\ [][NextApp]_vars

C28_NoPluginsDisables ==
    (/\ app.pc = "app"
     /\ app.call = "_run"
     /\ has_parameter_option(app.tokens, NoPlugins)) =>
        /\ ~app.loaded
        /\ ~app.activated
        /\ app.created.set => Truthy(app.created.disable_plugins)

===========================================================================
